---- MODULE Spec2Model ----
(***************************************************************************)
(* Model of scripts/disk_passthrough.py: the interactive run of main(),    *)
(* with enumerate_physical_disks, list_vms, get_used_scsi_indexes,         *)
(* generate_passthrough_commands and the two selection validators.         *)
(*                                                                         *)
(* Text is modelled as sequences of one-character strings, so the          *)
(* parsing the script does (re.sub, str.split, int, re.match, "in") is     *)
(* computed rather than assumed.  A multi-line command output is a         *)
(* sequence of lines.                                                      *)
(***************************************************************************)
EXTENDS Integers, Sequences, FiniteSets, TLC

----------------------------------------------------------------------------
(* Bounds of the model *)

\* most device rows in one lsblk output (after the header)
MaxRows == 2
\* most lines in one zpool status output
MaxPoolLines == 2
\* most paths in one find /dev/disk/by-id output
MaxAliases == 2
\* most VM rows in one qm list output (after the header)
MaxVmRows == 2
\* most lines in one qm config output
MaxConfigLines == 3
\* most selected disks handed to generate_passthrough_commands in SpecAlloc
MaxSelected == 3
\* most entries of a reference or selection list in SpecValidate
MaxRef == 2

----------------------------------------------------------------------------
(* Characters and Python's string primitives *)

Letters ==
  {"a","b","c","d","e","f","g","h","i","j","k","l","m",
   "n","o","p","q","r","s","t","u","v","w","x","y","z",
   "A","B","C","D","E","F","G","H","I","J","K","L","M",
   "N","O","P","Q","R","S","T","U","V","W","X","Y","Z"}

DigitChars == <<"0","1","2","3","4","5","6","7","8","9">>

IsLetter(c) == c \in Letters

IsDigit(c) == \E n \in 1..10 : DigitChars[n] = c

DigitVal(c) == (CHOOSE n \in 1..10 : DigitChars[n] = c) - 1

IsSpace(c) == c = " "

\* re.sub(r'([a-zA-Z]) ([a-zA-Z])', r'\1-\2', s): leftmost, non-overlapping
RECURSIVE ReSubFrom(_, _)
ReSubFrom(s, i) ==
  IF i > Len(s) THEN <<>>
  ELSE IF i + 2 <= Len(s) /\ IsLetter(s[i]) /\ s[i+1] = " " /\ IsLetter(s[i+2])
       THEN <<s[i], "-", s[i+2]>> \o ReSubFrom(s, i + 3)
       ELSE <<s[i]>> \o ReSubFrom(s, i + 1)

re_sub(s) == ReSubFrom(s, 1)

\* first position >= i that holds no whitespace (Len(s)+1 if none)
RECURSIVE SkipSpaces(_, _)
SkipSpaces(s, i) ==
  IF i > Len(s) \/ ~IsSpace(s[i]) THEN i ELSE SkipSpaces(s, i + 1)

\* first position >= i that holds whitespace (Len(s)+1 if none)
RECURSIVE TokenEnd(_, _)
TokenEnd(s, i) ==
  IF i > Len(s) \/ IsSpace(s[i]) THEN i ELSE TokenEnd(s, i + 1)

\* str.split(maxsplit=n) on whitespace from position i; n < 0 is no limit
RECURSIVE SplitFrom(_, _, _)
SplitFrom(s, i, n) ==
  LET a == SkipSpaces(s, i) IN
  IF a > Len(s) THEN <<>>
  ELSE IF n = 0 THEN <<SubSeq(s, a, Len(s))>>
  ELSE LET b == TokenEnd(s, a) IN
       <<SubSeq(s, a, b - 1)>> \o SplitFrom(s, b, n - 1)

split(s, maxsplit) == SplitFrom(s, 1, maxsplit)

\* str.split(",")
RECURSIVE SplitComma(_, _, _)
SplitComma(s, i, cur) ==
  IF i > Len(s) THEN <<cur>>
  ELSE IF s[i] = "," THEN <<cur>> \o SplitComma(s, i + 1, <<>>)
  ELSE SplitComma(s, i + 1, Append(cur, s[i]))

split_comma(s) == SplitComma(s, 1, <<>>)

\* last position <= i that holds no whitespace (0 if none)
RECURSIVE SkipSpacesBack(_, _)
SkipSpacesBack(s, i) ==
  IF i < 1 \/ ~IsSpace(s[i]) THEN i ELSE SkipSpacesBack(s, i - 1)

\* str.strip()
strip(s) == SubSeq(s, SkipSpaces(s, 1), SkipSpacesBack(s, Len(s)))

\* value of a digit string, most significant digit first
RECURSIVE DigitsValue(_, _)
DigitsValue(s, acc) ==
  IF s = <<>> THEN acc ELSE DigitsValue(Tail(s), 10 * acc + DigitVal(Head(s)))

AllDigits(s) == s # <<>> /\ \A j \in 1..Len(s) : IsDigit(s[j])

\* int(s): surrounding whitespace and one sign are accepted;
\* ok = FALSE stands for ValueError
py_int(s) ==
  LET t == strip(s)
      signed == t # <<>> /\ Head(t) \in {"+", "-"}
      body == IF signed THEN Tail(t) ELSE t
  IN IF AllDigits(body)
     THEN [ok |-> TRUE,
           val |-> IF signed /\ Head(t) = "-" THEN 0 - DigitsValue(body, 0)
                   ELSE DigitsValue(body, 0)]
     ELSE [ok |-> FALSE, val |-> 0]

\* sub in s  (substring test)
Contains(sub, s) ==
  \E i \in 1..(Len(s) - Len(sub) + 1) : SubSeq(s, i, i + Len(sub) - 1) = sub

\* list[j] with Python's index rule (j counted from 0, negative j from the
\* end); ok = FALSE stands for IndexError
py_index(list, j) ==
  IF 0 <= j /\ j < Len(list) THEN [ok |-> TRUE, val |-> list[j + 1]]
  ELSE IF j < 0 /\ 0 - j <= Len(list) THEN [ok |-> TRUE, val |-> list[Len(list) + j + 1]]
  ELSE [ok |-> FALSE, val |-> <<>>]

\* sequences of pairwise different elements of S, of length at most n
RECURSIVE DistinctSeqs(_, _)
DistinctSeqs(S, n) ==
  IF n = 0 THEN {<<>>}
  ELSE LET shorter == DistinctSeqs(S, n - 1) IN
       shorter \cup {q \in {Append(p, x) : p \in shorter, x \in S} :
                       \A a, b \in 1..Len(q) : a # b => q[a] # q[b]}

\* all sequences over S of length at most n
RECURSIVE SeqsUpTo(_, _)
SeqsUpTo(S, n) ==
  IF n = 0 THEN {<<>>}
  ELSE LET shorter == SeqsUpTo(S, n - 1) IN
       shorter \cup {Append(q, x) : q \in shorter, x \in S}

Range(q) == {q[j] : j \in 1..Len(q)}

----------------------------------------------------------------------------
(* What the host can answer to the script's queries *)

\* lsblk -d -o NAME,MODEL,SERIAL,SIZE: a header line, then one row a device.
\* Columns are padded, so the name is followed by two blanks here.
HeaderLine == <<"N","A","M","E">>
RowSda == <<"s","d","a"," "," ","M","1"," ","S","1"," ","1","G">>
RowSdb == <<"s","d","b"," "," ","M","2"," ","S","2"," ","2","G">>
\* model "MX" and serial "S3" one blank apart: re.sub joins them
RowSdc == <<"s","d","c"," "," ","M","X"," ","S","3"," ","3","G">>
\* a row with three fields only
RowSdd == <<"s","d","d"," "," ","M","4"," ","4","G">>
\* a two-word model "W D5": re.sub joins the words
RowSde == <<"s","d","e"," "," ","W"," ","D","5"," ","S","5"," ","5","G">>

LsblkRows == {RowSda, RowSdb, RowSdc, RowSdd, RowSde}

\* the outputs of a successful lsblk: nothing at all, or header and rows
LsblkOutputs ==
  {<<>>} \cup {<<HeaderLine>> \o rows : rows \in DistinctSeqs(LsblkRows, MaxRows)}

\* zpool status lines
Online == <<"O","N","L","I","N","E">>
PoolSda == <<" "," ","s","d","a"," ","O","N","L","I","N","E"," ","0">>
PoolSdb == <<"s","d","b"," ","O","N","L","I","N","E">>
PoolState == <<"s","t","a","t","e",":"," ","O","N","L","I","N","E">>
PoolSde == <<"s","d","e"," ","F","A","U","L","T","E","D">>

PoolLines == {PoolSda, PoolSdb, PoolState, PoolSde}

ZpoolOutputs == DistinctSeqs(PoolLines, MaxPoolLines)

\* /dev/disk/by-id links; a link has one target, so the links found for
\* different device names are different
NameSda == <<"s","d","a">>
NameSdb == <<"s","d","b">>
NameSde == <<"s","d","e">>
WwnMarker == <<"w","w","n","-">>
AtaA == <<"a","t","a","-","1">>
WwnA == <<"w","w","n","-","1">>
AtaB == <<"a","t","a","-","2">>
\* holds "wwn" but not the marker "wwn-"
WwnB == <<"w","w","n","2">>
WwnE == <<"w","w","n","-","5">>

LinksTo(name) ==
  IF name = NameSda THEN {AtaA, WwnA}
  ELSE IF name = NameSdb THEN {AtaB, WwnB}
  ELSE IF name = NameSde THEN {WwnE}
  ELSE {}

\* the outputs of a successful find /dev/disk/by-id/ -lname *name, in any order
FindOutputs(name) == DistinctSeqs(LinksTo(name), MaxAliases)

\* qm list rows: VMID NAME STATUS...
VmRow100 == <<"1","0","0"," ","a"," ","r","u","n">>
VmRow101 == <<"1","0","1"," ","b"," ","s","t","o","p"," ","5">>
\* a row whose first field is no number
VmRowBad == <<"x","1"," ","c"," ","r","u","n">>
\* a row with two fields only
VmRowShort == <<"1","0","2"," ","d">>

VmRows == {VmRow100, VmRow101, VmRowBad, VmRowShort}

QmListOutputs ==
  {<<>>} \cup {<<HeaderLine>> \o rows : rows \in DistinctSeqs(VmRows, MaxVmRows)}

\* qm config lines
ScsiPrefix == <<"s","c","s","i">>
CfgScsi0 == <<"s","c","s","i","0",":">>
CfgScsi1 == <<"s","c","s","i","1",":">>
CfgScsi3 == <<"s","c","s","i","3",":">>
CfgScsi10 == <<"s","c","s","i","1","0",":">>
CfgScsihw == <<"s","c","s","i","h","w",":">>

ConfigLines == {CfgScsi0, CfgScsi1, CfgScsi3, CfgScsi10, CfgScsihw}

QmConfigOutputs == DistinctSeqs(ConfigLines, MaxConfigLines)

\* what the operator can type at the disk prompt
DiskInputs ==
  {<<"1">>,
   <<"2">>,
   <<"1",",","2">>,
   <<"1",",","1">>,
   <<"0">>,
   <<"-","1">>,
   <<"3">>,
   <<"x">>,
   <<>>,
   <<" ","1"," ",",","2">>}

\* what the operator can type at the VM prompt
VmInputs ==
  {<<"1">>,
   <<" ","2">>,
   <<"0">>,
   <<"9">>,
   <<"x">>}

\* subprocess.check_output raises CalledProcessError on a non-zero exit
\* status and OSError when the command cannot be started
QueryErrors == {"CalledProcessError", "OSError"}

----------------------------------------------------------------------------
(* The script's functions *)

\* line 59: {line.split()[0] for line in zfs_disks_output if "ONLINE" in line}
ZfsDiskNames(zfs_disks_output) ==
  {split(zfs_disks_output[j], -1)[1] :
     j \in {n \in 1..Len(zfs_disks_output) : Contains(Online, zfs_disks_output[n])}}

\* line 61: output.strip().split("\n")[1:]
DeviceLines(out) == IF out = <<>> THEN <<>> ELSE Tail(out)

\* line 65 without its test of the pool-claimed names
RowAccepted_NoPoolTest(parts, names) ==
  /\ Len(parts) = 4
  /\ \A j \in 1..Len(parts) : parts[j] # <<>>

\* line 65: len(parts) == 4 and all(parts) and parts[0] not in zfs_disk_names
RowAccepted(parts, names) ==
  /\ Len(parts) = 4
  /\ \A j \in 1..Len(parts) : parts[j] # <<>>
  /\ parts[1] \notin names

\* line 75 reduced to its default, id_paths[0]
prioritized_path_First(id_paths) == id_paths[1]

\* line 75: next((p for p in id_paths if "wwn-" in p), id_paths[0])
prioritized_path(id_paths) ==
  LET hits == {j \in 1..Len(id_paths) : Contains(WwnMarker, id_paths[j])} IN
  IF hits # {} THEN id_paths[CHOOSE j \in hits : \A h \in hits : j <= h]
  ELSE id_paths[1]

\* line 77
DiskRecord(parts, path) ==
  [name |-> parts[1], model |-> parts[2], serial |-> parts[3],
   size |-> parts[4], id_path |-> path]

\* list_vms, lines 93-104; ok = FALSE stands for the ValueError of int()
RECURSIVE ParseVmLines(_, _, _)
ParseVmLines(ls, j, acc) ==
  IF j > Len(ls) THEN [ok |-> TRUE, val |-> acc]
  ELSE LET parts == split(ls[j], 2) IN
       IF Len(parts) = 3
       THEN LET id == py_int(parts[1]) IN
            IF id.ok
            THEN ParseVmLines(ls, j + 1,
                   Append(acc, [vmid |-> id.val, name |-> parts[2], status |-> parts[3]]))
            ELSE [ok |-> FALSE, val |-> <<>>]
       ELSE ParseVmLines(ls, j + 1, acc)

\* list_vms on the output of a successful qm list; `except Exception` turns
\* the ValueError into the empty list
list_vms(out) ==
  LET r == ParseVmLines(DeviceLines(out), 1, <<>>) IN
  IF r.ok THEN r.val ELSE <<>>

\* re.match(r"scsi(\d+):", line): the digits are taken greedily, then ":"
ScsiMatch(line) ==
  LET p == Len(ScsiPrefix)
      e == CHOOSE n \in p..Len(line) :
             /\ \A j \in (p + 1)..n : IsDigit(line[j])
             /\ (n = Len(line) \/ ~IsDigit(line[n + 1]))
  IN IF /\ Len(line) >= p
        /\ SubSeq(line, 1, p) = ScsiPrefix
        /\ e > p
        /\ e < Len(line)
        /\ line[e + 1] = ":"
     THEN [ok |-> TRUE, val |-> DigitsValue(SubSeq(line, p + 1, e), 0)]
     ELSE [ok |-> FALSE, val |-> 0]

\* get_used_scsi_indexes on the output of a successful qm config, lines 120-125
ScsiIndexes(out) ==
  {ScsiMatch(out[j]).val : j \in {n \in 1..Len(out) : ScsiMatch(out[n]).ok}}

\* lines 142-143: while scsi_index in used_indexes: scsi_index += 1
RECURSIVE NextFree(_, _)
NextFree(scsi_index, used) ==
  IF scsi_index \in used THEN NextFree(scsi_index + 1, used) ELSE scsi_index

\* lines 154-160 without the comparison of the serial (line 157)
DiskMatches_NoSerial(selected_disk, available_disks) ==
  \E j \in 1..Len(available_disks) :
    /\ available_disks[j].name = selected_disk.name
    /\ available_disks[j].model = selected_disk.model
    /\ available_disks[j].size = selected_disk.size

\* lines 154-160: any(... for disk in available_disks)
DiskMatches(selected_disk, available_disks) ==
  \E j \in 1..Len(available_disks) :
    /\ available_disks[j].name = selected_disk.name
    /\ available_disks[j].model = selected_disk.model
    /\ available_disks[j].serial = selected_disk.serial
    /\ available_disks[j].size = selected_disk.size

\* validate_disk_selection: the loop returns False at the first selected
\* disk that matches nothing, True when it runs out
RECURSIVE ValidateDisksFrom(_, _, _)
ValidateDisksFrom(selected, available, j) ==
  IF j > Len(selected) THEN TRUE
  ELSE IF ~DiskMatches(selected[j], available) THEN FALSE
  ELSE ValidateDisksFrom(selected, available, j + 1)

validate_disk_selection(selected, available) ==
  ValidateDisksFrom(selected, available, 1)

\* validate_vm_selection: True at the first VM equal on vmid, name and status
validate_vm_selection(selected, available_vms) ==
  \E j \in 1..Len(available_vms) :
    /\ available_vms[j].vmid = selected.vmid
    /\ available_vms[j].name = selected.name
    /\ available_vms[j].status = selected.status

\* line 192: [disks[int(index.strip()) - 1] for index in selected_indexes];
\* err is "ValueError" or "IndexError" when the comprehension raises
RECURSIVE SelectFrom(_, _, _, _)
SelectFrom(fields, list, j, acc) ==
  IF j > Len(fields) THEN [err |-> "none", val |-> acc]
  ELSE LET n == py_int(strip(fields[j])) IN
       IF ~n.ok THEN [err |-> "ValueError", val |-> <<>>]
       ELSE LET d == py_index(list, n.val - 1) IN
            IF ~d.ok THEN [err |-> "IndexError", val |-> <<>>]
            ELSE SelectFrom(fields, list, j + 1, Append(acc, d.val))

\* lines 191-192
ParseDiskSelection(text, list) == SelectFrom(split_comma(text), list, 1, <<>>)

\* line 206: vms[int(input(...)) - 1]
ParseVmSelection(text, list) ==
  LET n == py_int(text) IN
  IF ~n.ok THEN [err |-> "ValueError", val |-> <<>>]
  ELSE LET v == py_index(list, n.val - 1) IN
       IF ~v.ok THEN [err |-> "IndexError", val |-> <<>>]
       ELSE [err |-> "none", val |-> v.val]

----------------------------------------------------------------------------
(* State *)

VARIABLES
  pc,              \* where the run stands
  output,          \* enumerate_physical_disks: lsblk output after re.sub
  zfs_disk_names,  \* enumerate_physical_disks: names claimed by a pool
  lines,           \* enumerate_physical_disks: device rows
  i,               \* enumerate_physical_disks: position of the next row
  enum_disks,      \* enumerate_physical_disks: its local list `disks`
  src,             \* history: the row each entry of enum_disks comes from
  lookups,         \* history: the find output of each row that was looked up
  disks,           \* main: the eligible disks
  diskInput,       \* history: the text typed at the disk prompt
  selected_disks,  \* main
  vms,             \* main
  vmInput,         \* history: the text typed at the VM prompt
  selected_vm,     \* main
  used_indexes,    \* generate_passthrough_commands
  used0,           \* history: what get_used_scsi_indexes returned
  scsi_index,      \* generate_passthrough_commands
  k,               \* generate_passthrough_commands: position of the next disk
  commands,        \* generate_passthrough_commands
  printed,         \* the commands main has printed
  failed,          \* history: the queries that failed in this run
  partial,         \* history: enum_disks held a disk when a query failed
  steps,           \* history: the steps main has passed, in order
  exit             \* how the run ended

enumVars == <<output, zfs_disk_names, lines, i, enum_disks, src, lookups>>
mainVars == <<disks, diskInput, selected_disks, vms, vmInput, selected_vm>>
genVars == <<used_indexes, used0, scsi_index, k, commands, printed>>
histVars == <<failed, partial, steps>>
vars == <<pc, enumVars, mainVars, genVars, histVars, exit>>

NoVm == [vmid |-> 0, name |-> <<>>, status |-> <<>>]

EnumLocalsClear ==
  /\ output = <<>>
  /\ zfs_disk_names = {}
  /\ lines = <<>>
  /\ i = 1
  /\ enum_disks = <<>>
  /\ src = <<>>
  /\ lookups = <<>>

GenLocalsClear ==
  /\ used_indexes = {}
  /\ used0 = {}
  /\ scsi_index = 0
  /\ k = 1
  /\ commands = <<>>
  /\ printed = <<>>

\* the state when main() is entered
Init ==
  /\ pc = "enum_lsblk"
  /\ EnumLocalsClear
  /\ disks = <<>>
  /\ diskInput = <<>>
  /\ selected_disks = <<>>
  /\ vms = <<>>
  /\ vmInput = <<>>
  /\ selected_vm = NoVm
  /\ GenLocalsClear
  /\ failed = {}
  /\ partial = FALSE
  /\ steps = <<>>
  /\ exit = "running"

----------------------------------------------------------------------------
(* enumerate_physical_disks, called at line 183 *)

\* lines 79-84 with handlers that return the disks accepted so far
EnumFailed_Partial(query) ==
  /\ disks' = enum_disks
  /\ failed' = failed \cup {query}
  /\ partial' = (enum_disks # <<>>)
  /\ pc' = "main_check_disks"
  /\ UNCHANGED <<enumVars, diskInput, selected_disks, vms, vmInput, selected_vm,
                 genVars, steps, exit>>

\* lines 79-84: either handler logs and returns []
EnumFailed(query) ==
  /\ disks' = <<>>
  /\ failed' = failed \cup {query}
  /\ partial' = (enum_disks # <<>>)
  /\ pc' = "main_check_disks"
  /\ UNCHANGED <<enumVars, diskInput, selected_disks, vms, vmInput, selected_vm,
                 genVars, steps, exit>>

\* lines 55-56
EnumLsblk ==
  /\ pc = "enum_lsblk"
  /\ \E out \in LsblkOutputs :
       output' = [j \in 1..Len(out) |-> re_sub(out[j])]
  /\ pc' = "enum_zpool"
  /\ UNCHANGED <<zfs_disk_names, lines, i, enum_disks, src, lookups,
                 mainVars, genVars, histVars, exit>>

EnumLsblkFail ==
  /\ pc = "enum_lsblk"
  /\ \E e \in QueryErrors : EnumFailed("lsblk")

\* lines 58-62
EnumZpool ==
  /\ pc = "enum_zpool"
  /\ \E zfs_disks_output \in ZpoolOutputs :
       zfs_disk_names' = ZfsDiskNames(zfs_disks_output)
  /\ lines' = DeviceLines(output)
  /\ i' = 1
  /\ enum_disks' = <<>>
  /\ pc' = "enum_loop"
  /\ UNCHANGED <<output, src, lookups, mainVars, genVars, histVars, exit>>

EnumZpoolFail ==
  /\ pc = "enum_zpool"
  /\ \E e \in QueryErrors : EnumFailed("zpool")

\* lines 63-65, a row the condition of line 65 rejects
EnumSkipLine ==
  /\ pc = "enum_loop"
  /\ i <= Len(lines)
  /\ ~RowAccepted(split(lines[i], 3), zfs_disk_names)
  /\ i' = i + 1
  /\ UNCHANGED <<pc, output, zfs_disk_names, lines, enum_disks, src, lookups,
                 mainVars, genVars, histVars, exit>>

\* lines 63-77, a row the condition of line 65 accepts
EnumFind ==
  /\ pc = "enum_loop"
  /\ i <= Len(lines)
  /\ LET parts == split(lines[i], 3) IN
       /\ RowAccepted(parts, zfs_disk_names)
       /\ \E id_paths \in FindOutputs(parts[1]) :
            /\ lookups' = Append(lookups, [row |-> i, id_paths |-> id_paths])
            /\ IF id_paths # <<>>
               THEN /\ enum_disks' =
                         Append(enum_disks, DiskRecord(parts, prioritized_path(id_paths)))
                    /\ src' = Append(src, i)
               ELSE UNCHANGED <<enum_disks, src>>
  /\ i' = i + 1
  /\ UNCHANGED <<pc, output, zfs_disk_names, lines, mainVars, genVars, histVars, exit>>

EnumFindFail ==
  /\ pc = "enum_loop"
  /\ i <= Len(lines)
  /\ RowAccepted(split(lines[i], 3), zfs_disk_names)
  /\ \E e \in QueryErrors : EnumFailed("find")

\* line 78
EnumReturn ==
  /\ pc = "enum_loop"
  /\ i > Len(lines)
  /\ disks' = enum_disks
  /\ pc' = "main_check_disks"
  /\ UNCHANGED <<enumVars, diskInput, selected_disks, vms, vmInput, selected_vm,
                 genVars, histVars, exit>>

----------------------------------------------------------------------------
(* main *)

Finish(how) ==
  /\ pc' = "done"
  /\ exit' = how

\* lines 184-188 without the return of line 186
MainCheckDisks_NoReturn ==
  /\ pc = "main_check_disks"
  /\ output' = <<>>
  /\ zfs_disk_names' = {}
  /\ lines' = <<>>
  /\ i' = 1
  /\ enum_disks' = <<>>
  /\ src' = <<>>
  /\ lookups' = <<>>
  /\ pc' = "input_disks"
  /\ steps' = Append(steps, "disks")
  /\ UNCHANGED <<mainVars, genVars, failed, partial, exit>>

\* lines 184-188; the locals of enumerate_physical_disks are gone
MainCheckDisks ==
  /\ pc = "main_check_disks"
  /\ output' = <<>>
  /\ zfs_disk_names' = {}
  /\ lines' = <<>>
  /\ i' = 1
  /\ enum_disks' = <<>>
  /\ src' = <<>>
  /\ lookups' = <<>>
  /\ IF disks = <<>>
     THEN Finish("no_disks") /\ UNCHANGED steps
     ELSE pc' = "input_disks" /\ steps' = Append(steps, "disks") /\ UNCHANGED exit
  /\ UNCHANGED <<mainVars, genVars, failed, partial>>

\* lines 190-195
MainSelectDisks ==
  /\ pc = "input_disks"
  /\ \E text \in DiskInputs :
       /\ diskInput' = text
       /\ LET r == ParseDiskSelection(text, disks) IN
            IF r.err = "none"
            THEN /\ selected_disks' = r.val
                 /\ pc' = "list_vms"
                 /\ steps' = Append(steps, "disk_selection")
                 /\ UNCHANGED exit
            ELSE /\ Finish("invalid_disk_selection")
                 /\ UNCHANGED <<selected_disks, steps>>
  /\ UNCHANGED <<enumVars, disks, vms, vmInput, selected_vm, genVars, failed, partial>>

\* line 191: input() raises EOFError when standard input is closed; line 193
\* does not catch it
MainSelectDisksEOF ==
  /\ pc = "input_disks"
  /\ Finish("traceback")
  /\ UNCHANGED <<enumVars, mainVars, genVars, histVars>>

\* lines 198-203, list_vms on a successful qm list
MainListVms ==
  /\ pc = "list_vms"
  /\ \E out \in QmListOutputs :
       /\ vms' = list_vms(out)
       /\ IF vms' = <<>>
          THEN Finish("no_vms") /\ UNCHANGED steps
          ELSE pc' = "input_vm" /\ steps' = Append(steps, "vms") /\ UNCHANGED exit
  /\ UNCHANGED <<enumVars, disks, diskInput, selected_disks, vmInput, selected_vm,
                 genVars, failed, partial>>

\* lines 105-110, then 199-201
MainListVmsFail ==
  /\ pc = "list_vms"
  /\ \E e \in QueryErrors :
       /\ vms' = <<>>
       /\ failed' = failed \cup {"qm_list"}
  /\ Finish("no_vms")
  /\ UNCHANGED <<enumVars, disks, diskInput, selected_disks, vmInput, selected_vm,
                 genVars, partial, steps>>

\* lines 205-209
MainSelectVm ==
  /\ pc = "input_vm"
  /\ \E text \in VmInputs :
       /\ vmInput' = text
       /\ LET r == ParseVmSelection(text, vms) IN
            IF r.err = "none"
            THEN /\ selected_vm' = r.val
                 /\ pc' = "validate_disks"
                 /\ steps' = Append(steps, "vm_selection")
                 /\ UNCHANGED exit
            ELSE /\ Finish("invalid_vm_selection")
                 /\ UNCHANGED <<selected_vm, steps>>
  /\ UNCHANGED <<enumVars, disks, diskInput, selected_disks, vms, genVars,
                 failed, partial>>

\* line 206: EOFError is not caught by line 207
MainSelectVmEOF ==
  /\ pc = "input_vm"
  /\ Finish("traceback")
  /\ UNCHANGED <<enumVars, mainVars, genVars, histVars>>

\* lines 212-214
MainValidateDisks ==
  /\ pc \in {"validate_disks"}
  /\ IF validate_disk_selection(selected_disks, disks)
     THEN pc' = "validate_vm" /\ steps' = Append(steps, "disks_valid") /\ UNCHANGED exit
     ELSE Finish("disks_invalid") /\ UNCHANGED steps
  /\ UNCHANGED <<enumVars, mainVars, genVars, failed, partial>>

\* lines 215-217
MainValidateVm ==
  /\ pc = "validate_vm"
  /\ IF validate_vm_selection(selected_vm, vms)
     THEN pc' = "generate" /\ steps' = Append(steps, "vm_valid") /\ UNCHANGED exit
     ELSE Finish("vm_invalid") /\ UNCHANGED steps
  /\ UNCHANGED <<enumVars, mainVars, genVars, failed, partial>>

----------------------------------------------------------------------------
(* generate_passthrough_commands, called at line 220 *)

\* lines 136-139 with the search starting at index 1
GenerateEnter_FromOne(used) ==
  /\ used_indexes' = used
  /\ used0' = used
  /\ scsi_index' = 1
  /\ k' = 1
  /\ commands' = <<>>
  /\ pc' = "generate_loop"

\* lines 136-139, with what get_used_scsi_indexes returned
GenerateEnter(used) ==
  /\ used_indexes' = used
  /\ used0' = used
  /\ scsi_index' = 0
  /\ k' = 1
  /\ commands' = <<>>
  /\ pc' = "generate_loop"

\* lines 136-139, get_used_scsi_indexes on a successful qm config
GenerateStart ==
  /\ pc = "generate"
  /\ \E out \in QmConfigOutputs : GenerateEnter(ScsiIndexes(out))
  /\ UNCHANGED <<enumVars, mainVars, printed, histVars, exit>>

\* lines 126-128: on CalledProcessError get_used_scsi_indexes returns set()
GenerateStartFail ==
  /\ pc = "generate"
  /\ GenerateEnter({})
  /\ failed' = failed \cup {"qm_config"}
  /\ UNCHANGED <<enumVars, mainVars, printed, partial, steps, exit>>

\* get_used_scsi_indexes has no handler for any other exception: it leaves
\* generate_passthrough_commands and main
GenerateStartRaise ==
  /\ pc = "generate"
  /\ failed' = failed \cup {"qm_config"}
  /\ Finish("traceback")
  /\ UNCHANGED <<enumVars, mainVars, genVars, partial, steps>>

\* lines 141-144 without line 145, used_indexes.add(scsi_index)
GenerateDisk_NoAdd ==
  /\ pc = "generate_loop"
  /\ k <= Len(selected_disks)
  /\ LET free == NextFree(scsi_index, used_indexes) IN
       /\ scsi_index' = free
       /\ commands' = Append(commands,
            [vmid |-> selected_vm.vmid, index |-> free,
             id_path |-> selected_disks[k].id_path])
  /\ k' = k + 1
  /\ UNCHANGED <<pc, enumVars, mainVars, used_indexes, used0, printed, histVars, exit>>

\* lines 141-145, one selected disk
GenerateDisk ==
  /\ pc = "generate_loop"
  /\ k <= Len(selected_disks)
  /\ LET free == NextFree(scsi_index, used_indexes) IN
       /\ scsi_index' = free
       /\ commands' = Append(commands,
            [vmid |-> selected_vm.vmid, index |-> free,
             id_path |-> selected_disks[k].id_path])
       /\ used_indexes' = used_indexes \cup {free}
  /\ k' = k + 1
  /\ UNCHANGED <<pc, enumVars, mainVars, used0, printed, histVars, exit>>

\* line 146, then lines 221-223
GenerateReturn ==
  /\ pc = "generate_loop"
  /\ k > Len(selected_disks)
  /\ printed' = commands
  /\ Finish("generated")
  /\ UNCHANGED <<enumVars, mainVars, used_indexes, used0, scsi_index, k, commands,
                 histVars>>

----------------------------------------------------------------------------
(* One run of main() *)

Next ==
  \/ EnumLsblk
  \/ EnumLsblkFail
  \/ EnumZpool
  \/ EnumZpoolFail
  \/ EnumSkipLine
  \/ EnumFind
  \/ EnumFindFail
  \/ EnumReturn
  \/ MainCheckDisks
  \/ MainSelectDisks
  \/ MainSelectDisksEOF
  \/ MainListVms
  \/ MainListVmsFail
  \/ MainSelectVm
  \/ MainSelectVmEOF
  \/ MainValidateDisks
  \/ MainValidateVm
  \/ GenerateStart
  \/ GenerateStartFail
  \/ GenerateStartRaise
  \/ GenerateDisk
  \/ GenerateReturn

Spec == Init /\ [][Next]_vars

----------------------------------------------------------------------------
(* generate_passthrough_commands alone: any list of selected disks *)

DiskA == DiskRecord(split(RowSda, 3), WwnA)
DiskB == DiskRecord(split(RowSdb, 3), AtaB)
KnownVms == list_vms(<<HeaderLine, VmRow100, VmRow101>>)
AllSteps ==
  <<"disks", "disk_selection", "vms", "vm_selection", "disks_valid", "vm_valid">>

InitAlloc ==
  /\ pc = "generate"
  /\ EnumLocalsClear
  /\ disks = <<DiskA, DiskB>>
  /\ diskInput = <<>>
  /\ selected_disks \in SeqsUpTo({DiskA, DiskB}, MaxSelected)
  /\ vms = KnownVms
  /\ vmInput = <<>>
  /\ selected_vm \in Range(KnownVms)
  /\ GenLocalsClear
  /\ failed = {}
  /\ partial = FALSE
  /\ steps = AllSteps
  /\ exit = "running"

NextAlloc ==
  \/ GenerateStart
  \/ GenerateStartFail
  \/ GenerateStartRaise
  \/ GenerateDisk
  \/ GenerateReturn

SpecAlloc == InitAlloc /\ [][NextAlloc]_vars

----------------------------------------------------------------------------
(* The two validators alone: any selection against any reference list *)

\* a disk record with one field replaced
DiskWith(d, field, value) == [d EXCEPT ![field] = value]

\* the reference entries: two unrelated disks, and one that differs from
\* DiskA in the serial only
RefDisks == {DiskA, DiskB, DiskWith(DiskA, "serial", DiskB.serial)}

SelDisks ==
  {DiskA,
   DiskWith(DiskA, "name", DiskB.name),
   DiskWith(DiskA, "model", DiskB.model),
   DiskWith(DiskA, "serial", DiskB.serial),
   DiskWith(DiskA, "size", DiskB.size),
   DiskWith(DiskA, "id_path", AtaA)}

RefVms == Range(KnownVms)

SelVms ==
  {KnownVms[1],
   [KnownVms[1] EXCEPT !.vmid = KnownVms[2].vmid],
   [KnownVms[1] EXCEPT !.name = KnownVms[2].name],
   [KnownVms[1] EXCEPT !.status = KnownVms[2].status],
   KnownVms[2]}

InitValidate ==
  /\ pc = "validate_disks"
  /\ EnumLocalsClear
  /\ disks \in DistinctSeqs(RefDisks, MaxRef)
  /\ diskInput = <<>>
  /\ selected_disks \in SeqsUpTo(SelDisks, MaxRef)
  /\ vms \in DistinctSeqs(RefVms, MaxRef)
  /\ vmInput = <<>>
  /\ selected_vm \in SelVms
  /\ GenLocalsClear
  /\ failed = {}
  /\ partial = FALSE
  /\ steps = SubSeq(AllSteps, 1, 4)
  /\ exit = "running"

NextValidate ==
  \/ MainValidateDisks
  \/ MainValidateVm

SpecValidate == InitValidate /\ [][NextValidate]_vars

----------------------------------------------------------------------------
(* Properties of generate_passthrough_commands, under SpecAlloc *)

Indexes(cmds) == [j \in 1..Len(cmds) |-> cmds[j].index]

\* C1: generate_passthrough_commands produces one command per selected
\* disk, in selection order; the indices of the commands are pairwise
\* distinct and none is in the set get_used_scsi_indexes returned.
OneDistinctFreeIndexPerDisk ==
  pc \in {"generate_loop", "done"} =>
    /\ Len(commands) = k - 1
    /\ \A j \in 1..Len(commands) :
         /\ commands[j].id_path = selected_disks[j].id_path
         /\ commands[j].vmid = selected_vm.vmid
         /\ commands[j].index \notin used0
    /\ \A a, b \in 1..Len(commands) :
         a # b => commands[a].index # commands[b].index
    /\ exit = "generated" =>
         /\ printed = commands
         /\ Len(printed) = Len(selected_disks)

\* C1 witness: three commands came out against the occupied set {1, 3},
\* which the query returned.
ThreeDisksAroundOccupied ==
  /\ exit = "generated"
  /\ "qm_config" \notin failed
  /\ used0 = {1, 3}
  /\ Len(printed) = 3
  /\ selected_disks = <<DiskA, DiskB, DiskA>>

\* C2: the index of the k-th command is the smallest integer >= 0 that is
\* neither in the originally occupied set nor an index of an earlier
\* command; occupied {0,1,3} with three disks gives 2, 4, 5 and an empty
\* disk list gives no command.
SmallestFreeIndex ==
  pc \in {"generate_loop", "done"} =>
    /\ \A j \in 1..Len(commands) :
         LET taken == used0 \cup {commands[h].index : h \in 1..(j - 1)} IN
         /\ commands[j].index >= 0
         /\ commands[j].index \notin taken
         /\ \A n \in 0..(commands[j].index - 1) : n \in taken
    /\ (exit = "generated" /\ used0 = {0, 1, 3} /\ Len(selected_disks) = 3) =>
         Indexes(printed) = <<2, 4, 5>>
    /\ (exit = "generated" /\ selected_disks = <<>>) => printed = <<>>

\* C2 witness: occupied {0,1,3} and three disks gave 2, 4, 5.
Yields245 ==
  /\ exit = "generated"
  /\ used0 = {0, 1, 3}
  /\ Len(selected_disks) = 3
  /\ Indexes(printed) = <<2, 4, 5>>

----------------------------------------------------------------------------
(* Properties of enumerate_physical_disks, under Spec *)

EnumQueries == {"lsblk", "zpool", "find"}

\* enumerate_physical_disks has run its loop or has returned, and its
\* locals are still there
EnumVisible == pc \in {"enum_loop", "main_check_disks"}

DiskFields(d) == <<d.name, d.model, d.serial, d.size>>

\* C3: no disk enumerate_physical_disks returns has a name in the
\* pool-claimed set, whether or not a link would be found for it, and the
\* returned disks are in the order of the rows they come from.
PoolDisksExcludedInOrder ==
  EnumVisible =>
    /\ \A j \in 1..Len(enum_disks) : enum_disks[j].name \notin zfs_disk_names
    /\ Len(src) = Len(enum_disks)
    /\ \A j \in 1..Len(src) :
         /\ src[j] \in 1..Len(lines)
         /\ DiskFields(enum_disks[j]) = split(lines[src[j]], 3)
    /\ \A a, b \in 1..Len(src) : a < b => src[a] < src[b]
    /\ pc = "main_check_disks" =>
         /\ \A j \in 1..Len(disks) : disks[j].name \notin zfs_disk_names
         /\ disks \in {enum_disks, <<>>}

\* C3 witness: a disk was returned from a later row while an earlier
\* well-formed row of a pool device, which has links, was left out.
PoolDeviceWithLinksLeftOut ==
  /\ pc = "main_check_disks"
  /\ Len(disks) = 1
  /\ \E r \in 1..Len(lines) :
       LET parts == split(lines[r], 3) IN
       /\ Len(parts) = 4
       /\ parts[1] \in zfs_disk_names
       /\ LinksTo(parts[1]) # {}
       /\ r < src[1]

HasMarker(id_paths) ==
  \E j \in 1..Len(id_paths) : Contains(WwnMarker, id_paths[j])

\* C4: for every row that passes line 65, whatever order find returned
\* the links in: no link, and the device is left out; some link holds
\* "wwn-", and the attached identifier is a returned link holding "wwn-";
\* otherwise the attached identifier is the first link returned.
IdentifierPriority ==
  EnumVisible =>
    \A r \in 1..(i - 1) :
      LET looked == {n \in 1..Len(lookups) : lookups[n].row = r}
          kept == {j \in 1..Len(src) : src[j] = r}
      IN IF RowAccepted(split(lines[r], 3), zfs_disk_names)
         THEN /\ Cardinality(looked) = 1
              /\ \A n \in looked :
                   LET id_paths == lookups[n].id_paths IN
                   IF id_paths = <<>> THEN kept = {}
                   ELSE /\ Cardinality(kept) = 1
                        /\ \A j \in kept :
                             /\ enum_disks[j].id_path \in Range(id_paths)
                             /\ IF HasMarker(id_paths)
                                THEN Contains(WwnMarker, enum_disks[j].id_path)
                                ELSE enum_disks[j].id_path = id_paths[1]
         ELSE looked = {} /\ kept = {}

\* C4 witness: find returned the ata link before the wwn link and the wwn
\* link was attached.
WwnChosenOverEarlierAta ==
  /\ pc = "main_check_disks"
  /\ Len(disks) >= 1
  /\ \E n \in 1..Len(lookups) :
       /\ lookups[n].id_paths = <<AtaA, WwnA>>
       /\ \E j \in 1..Len(disks) :
            src[j] = lookups[n].row /\ disks[j].id_path = WwnA

\* C6: when the lsblk, zpool or find query fails, at any row,
\* enumerate_physical_disks returns the empty list, not the disks accepted
\* so far, and main goes on with "No physical disks available".
EnumerateFailsClosed ==
  /\ pc \in {"enum_lsblk", "enum_zpool", "enum_loop"} => failed = {}
  /\ (failed \cap EnumQueries # {}) =>
       /\ disks = <<>>
       /\ pc \in {"main_check_disks", "done"}
       /\ pc = "done" => exit = "no_disks"
  /\ partial => failed \cap EnumQueries # {}

\* C6 witness: find failed after a disk had been accepted, and the empty
\* list came back.
FindFailedAfterAcceptedDisk ==
  /\ pc = "main_check_disks"
  /\ "find" \in failed
  /\ partial
  /\ enum_disks # <<>>
  /\ disks = <<>>

----------------------------------------------------------------------------
(* Properties of a run of main, under Spec *)

\* C7 (as claimed): whenever a query failed, the run prints no command.
FailedQueryPrintsNothing ==
  failed # {} => printed = <<>>

\* a text that names positions of the displayed list 1..n, comma-separated
ValidDiskText(text, n) ==
  \A f \in Range(split_comma(text)) :
    LET v == py_int(strip(f)) IN v.ok /\ v.val \in 1..n

ValidVmText(text, n) ==
  LET v == py_int(text) IN v.ok /\ v.val \in 1..n

\* C8 (as claimed): input that is no valid index into the displayed list
\* 1..n ends the run at once, so a run that got past a prompt was given
\* valid input there.
InvalidInputAborts ==
  /\ "disk_selection" \in Range(steps) => ValidDiskText(diskInput, Len(disks))
  /\ "vm_selection" \in Range(steps) => ValidVmText(vmInput, Len(vms))

IsPrefix(p, q) == Len(p) <= Len(q) /\ SubSeq(q, 1, Len(p)) = p

RejectedExits ==
  {"no_disks", "invalid_disk_selection", "no_vms", "invalid_vm_selection",
   "disks_invalid", "vm_invalid"}

\* C9: commands are generated only after a non-empty disk list, a parsed
\* disk selection, a non-empty VM list, a parsed VM selection and both
\* validations, in this order; a run that fails one of these steps ends
\* with no command generated or printed.
GenerationOnlyAfterAllSteps ==
  /\ IsPrefix(steps, AllSteps)
  /\ "disks" \in Range(steps) => disks # <<>>
  /\ "disk_selection" \in Range(steps) =>
       selected_disks # <<>> /\ Range(selected_disks) \subseteq Range(disks)
  /\ "vms" \in Range(steps) => vms # <<>>
  /\ "vm_selection" \in Range(steps) => selected_vm \in Range(vms)
  /\ "disks_valid" \in Range(steps) => validate_disk_selection(selected_disks, disks)
  /\ "vm_valid" \in Range(steps) => validate_vm_selection(selected_vm, vms)
  /\ (pc \in {"generate", "generate_loop"} \/ commands # <<>> \/ printed # <<>>
        \/ exit = "generated") => steps = AllSteps
  /\ pc = "input_disks" => steps = SubSeq(AllSteps, 1, 1)
  /\ pc = "list_vms" => steps = SubSeq(AllSteps, 1, 2)
  /\ pc = "input_vm" => steps = SubSeq(AllSteps, 1, 3)
  /\ pc = "validate_disks" => steps = SubSeq(AllSteps, 1, 4)
  /\ pc = "validate_vm" => steps = SubSeq(AllSteps, 1, 5)
  /\ exit \in RejectedExits =>
       /\ pc = "done"
       /\ steps # AllSteps
       /\ commands = <<>>
       /\ printed = <<>>

\* C9 witness: a run that passed every step and printed its commands.
AllStepsThenCommands ==
  /\ exit = "generated"
  /\ steps = AllSteps
  /\ Len(printed) = 2
  /\ Len(disks) = 2
  /\ Len(vms) = 2

\* C10 (as claimed): no identifier path is in more than one printed command.
EachDiskAttachedOnce ==
  \A a, b \in 1..Len(printed) :
    a # b => printed[a].id_path # printed[b].id_path

----------------------------------------------------------------------------
(* Properties of the validators, under SpecValidate *)

DisksChecked == pc # "validate_disks"
DisksPassed == "disks_valid" \in Range(steps)
VmChecked == pc = "generate" \/ exit = "vm_invalid"
VmPassed == "vm_valid" \in Range(steps)

\* every selected disk equals some reference disk on name, model, serial, size
EveryDiskListed(selected, reference) ==
  \A s \in Range(selected) : \E d \in Range(reference) : DiskFields(d) = DiskFields(s)

VmListed(selected, reference) ==
  \E v \in Range(reference) :
    <<v.vmid, v.name, v.status>> = <<selected.vmid, selected.name, selected.status>>

ValidatorsExact ==
  /\ DisksChecked =>
       /\ DisksPassed <=> EveryDiskListed(selected_disks, disks)
       /\ ~DisksPassed <=> exit = "disks_invalid"
  /\ VmChecked =>
       /\ VmPassed <=> VmListed(selected_vm, vms)
       /\ ~VmPassed <=> exit = "vm_invalid"

\* C5 (as claimed): each validator accepts exactly the selections whose
\* items equal a reference entry on every field, and both reject every
\* selection when the reference list is empty.
ValidatorsExactAndRejectOnEmptyReference ==
  /\ ValidatorsExact
  /\ (DisksChecked /\ disks = <<>>) => ~DisksPassed
  /\ (VmChecked /\ vms = <<>>) => ~VmPassed

\* C5 (amended): each validator accepts exactly the selections whose items
\* equal a reference entry on every field; against an empty reference list
\* validate_vm_selection rejects every selection and
\* validate_disk_selection rejects every selection that is not empty.
ValidatorsExactAndRejectNonEmptyOnEmptyReference ==
  /\ ValidatorsExact
  /\ (DisksChecked /\ disks = <<>> /\ selected_disks # <<>>) => ~DisksPassed
  /\ (DisksChecked /\ disks = <<>> /\ selected_disks = <<>>) => DisksPassed
  /\ (VmChecked /\ vms = <<>>) => ~VmPassed

\* C5 witness: the second selected disk differs from its reference entry in
\* the serial only and the selection was rejected.
OneFieldAlteredRejected ==
  /\ exit = "disks_invalid"
  /\ disks = <<DiskA, DiskB>>
  /\ selected_disks = <<DiskA, DiskWith(DiskA, "serial", DiskB.serial)>>

====
